---- MODULE Spec2Model ----
(***************************************************************************)
(* Live lesson sessions of the YDTT backend: the session lifecycle         *)
(* endpoints (app/api/v1/lesson_sessions.py), the whiteboard endpoints     *)
(* (app/api/v1/whiteboard.py), the real-time endpoint                      *)
(* (app/api/v1/ws_sessions.py) and the connection manager                  *)
(* (app/core/websocket.py).                                                *)
(*                                                                         *)
(* Every request handler is a coroutine: it runs atomically between two    *)
(* awaits and other requests run at its awaits.  A handler that reads,     *)
(* decides and then writes is therefore modelled as two actions (its reads *)
(* and checks, then its commit) with a request slot holding its locals in  *)
(* between.  Reads of one handler that precede its first write are taken   *)
(* together: no claim distinguishes their relative order.                  *)
(***************************************************************************)
EXTENDS Integers, Sequences, FiniteSets, TLC

(***************************************************************************)
(* Bounds of the model.                                                    *)
(***************************************************************************)
MaxSessions == 2      \* rows of lesson_sessions
MaxAttendance == 2    \* rows of session_attendance
MaxEvents == 2        \* rows of whiteboard_events
MaxClock == 4         \* readings of datetime.utcnow()
MaxInflight == 2      \* requests suspended between their check and their commit
MaxSockets == 1       \* connection attempts on the real-time endpoint
MaxConnections == 2   \* sockets handed to ConnectionManager.connect
MaxBroadcasts == 1    \* calls of ConnectionManager.broadcast_to_session

(***************************************************************************)
(* Static data: users, classes and schedules (the collaborators' tables,   *)
(* which no operation of this subsystem writes).                           *)
(***************************************************************************)
Anonymous == "anonymous"      \* a request whose token resolves to no active user
Teachers == {"t1", "t2"}
Students == {"s1", "s2"}
Admins == {"a1"}
Users == Teachers \cup Students \cup Admins
Callers == Users \cup {Anonymous}

role(u) ==
    IF u \in Teachers THEN "TEACHER"
    ELSE IF u \in Students THEN "STUDENT"
    ELSE "SCHOOL_ADMIN"

NoClass == "none"
user_class_id(u) ==
    IF u = "s1" THEN "c1" ELSE IF u = "s2" THEN "c2" ELSE NoClass

Schedules == {1}
NoSchedule == 2               \* an id with no row in schedules
schedule_teacher_id(sch) == "t1"
schedule_class_id(sch) == "c1"

(***************************************************************************)
(* LessonSessionStatus as the ORM declares it.  The handlers also name the *)
(* members PENDING and CANCELLED; naming a member the enum does not have   *)
(* raises AttributeError at the place where it is evaluated.               *)
(***************************************************************************)
\* Every member the handlers name, declared or not
LessonSessionStatus_all_members == {"PENDING", "ACTIVE", "ENDED", "CANCELLED"}
\* The members the enum declares
LessonSessionStatus == {"ACTIVE", "ENDED"}
HasMember(m) == m \in LessonSessionStatus

AttendanceStatus == {"PRESENT", "ABSENT", "LATE", "EXCUSED"}
NoRecord == "NONE"            \* no daily Attendance row for (student, today)

WhiteboardEventType == {"DRAW", "ERASE", "CLEAR"}

NULL == 0                     \* a nullable DateTime column that is not set

VARIABLES
    lesson_sessions,      \* table lesson_sessions: a row's id is its index
    session_attendance,   \* table session_attendance
    whiteboard_events,    \* table whiteboard_events
    now,                  \* the next reading of datetime.utcnow()
    inflight,             \* the locals of the handlers suspended at an await
                          \* between their checks and their commit, oldest first
    out,                  \* the response of the request that completed last
    active_connections,   \* ConnectionManager: session_id -> set of sockets
    connection_users,     \* ConnectionManager: socket -> user_id
    connection_sessions,  \* ConnectionManager: socket -> session_id
    inbox,                \* socket -> the messages the server sent it
    next_socket,          \* the next WebSocket object the server is handed
    broadcast_log,        \* session_id -> the messages handed to
                          \* broadcast_to_session for that room, in order
    sending               \* the frame of the broadcast_to_session call that
                          \* is under way or ended last (ManagerSpec)

vars == <<lesson_sessions, session_attendance, whiteboard_events, now, inflight,
          out, active_connections, connection_users, connection_sessions,
          inbox, next_socket, broadcast_log, sending>>

db_vars == <<lesson_sessions, session_attendance, whiteboard_events>>
manager_vars == <<active_connections, connection_users, connection_sessions>>

Slots == 1..MaxInflight
Suspended(op, caller, target) == [op |-> op, caller |-> caller, target |-> target]

\* A response: the handler, its HTTP status (or WebSocket close code) and a
\* body: for get_whiteboard_state the event types in order, for the
\* real-time endpoint the user whose connection attempt ended.
Response(op, code) == [op |-> op, code |-> code, body |-> <<>>]
NoResponse == Response("none", 0)

SessionIds == 1..MaxSessions   \* an id has no row until that session is started

NoSocket == 0

\* The frame of a call of broadcast_to_session: its arguments, the room
\* when it was called, the set iterator of line 118 (the size of the room
\* when it was made, what it has yielded, whether the room was changed or
\* dropped since), the socket whose send_json is awaited, the sockets whose
\* send went through, the list `disconnected`, and how the call stands.
NoCall == [session_id |-> 0, exclude |-> NoSocket, members |-> {}, size |-> 0,
           visited |-> {}, current |-> NoSocket, changed |-> FALSE,
           dropped |-> FALSE, sent |-> {}, disconnected |-> {}, state |-> "idle"]

Init ==
    /\ lesson_sessions = <<>>
    /\ session_attendance = <<>>
    /\ whiteboard_events = <<>>
    /\ now = 1
    /\ inflight = <<>>
    /\ out = NoResponse
    /\ active_connections = <<>>
    /\ connection_users = <<>>
    /\ connection_sessions = <<>>
    /\ inbox = <<>>
    /\ next_socket = 1
    /\ broadcast_log = [s \in SessionIds |-> <<>>]
    /\ sending = NoCall

(***************************************************************************)
(* ConnectionManager (app/core/websocket.py).  Its methods are operators   *)
(* on a manager value: the three dictionaries, with what each socket has   *)
(* been sent (inbox) and what was handed to broadcast_to_session (log).    *)
(***************************************************************************)
Manager == [ac |-> active_connections, cu |-> connection_users,
            cs |-> connection_sessions, inbox |-> inbox, log |-> broadcast_log]

SetManager(m) ==
    /\ active_connections' = m.ac
    /\ connection_users' = m.cu
    /\ connection_sessions' = m.cs
    /\ inbox' = m.inbox
    /\ broadcast_log' = m.log

Without(f, k) == [x \in (DOMAIN f) \ {k} |-> f[x]]
With(f, k, v) == [x \in (DOMAIN f) \cup {k} |-> IF x = k THEN v ELSE f[x]]

\* ConnectionManager.connect, after websocket.accept()
connect(m, websocket, session_id, user_id) ==
    LET room == IF session_id \in DOMAIN m.ac THEN m.ac[session_id] ELSE {}
    IN  [m EXCEPT !.ac = With(m.ac, session_id, room \cup {websocket}),
                  !.cu = With(m.cu, websocket, user_id),
                  !.cs = With(m.cs, websocket, session_id),
                  !.inbox = With(m.inbox, websocket, <<>>)]

\* Mutant: disconnect leaves the socket's entry in connection_users
disconnect_keeps_user(m, websocket) ==
    LET known == websocket \in DOMAIN m.cs
        session_id == IF known THEN m.cs[websocket] ELSE 0
        ac1 == IF known /\ session_id \in DOMAIN m.ac
               THEN LET room == m.ac[session_id] \ {websocket}
                    IN  IF room = {} THEN Without(m.ac, session_id)
                        ELSE [m.ac EXCEPT ![session_id] = room]
               ELSE m.ac
    IN  [m EXCEPT !.ac = ac1, !.cs = Without(m.cs, websocket)]

\* Mutant: disconnect leaves the emptied room in active_connections
disconnect_keeps_room(m, websocket) ==
    LET known == websocket \in DOMAIN m.cs
        session_id == IF known THEN m.cs[websocket] ELSE 0
        ac1 == IF known /\ session_id \in DOMAIN m.ac
               THEN [m.ac EXCEPT ![session_id] = m.ac[session_id] \ {websocket}]
               ELSE m.ac
    IN  [m EXCEPT !.ac = ac1, !.cu = Without(m.cu, websocket),
                  !.cs = Without(m.cs, websocket)]

\* ConnectionManager.disconnect
disconnect(m, websocket) ==
    LET known == websocket \in DOMAIN m.cs
        session_id == IF known THEN m.cs[websocket] ELSE 0
        ac1 == IF known /\ session_id \in DOMAIN m.ac
               THEN LET room == m.ac[session_id] \ {websocket}
                    IN  IF room = {} THEN Without(m.ac, session_id)
                        ELSE [m.ac EXCEPT ![session_id] = room]
               ELSE m.ac
    IN  [m EXCEPT !.ac = ac1, !.cu = Without(m.cu, websocket),
                  !.cs = Without(m.cs, websocket)]

RECURSIVE disconnect_all(_, _)
disconnect_all(m, sockets) ==
    IF sockets = {} THEN m
    ELSE LET w == CHOOSE x \in sockets : TRUE
         IN  disconnect_all(disconnect(m, w), sockets \ {w})

\* The sockets broadcast_to_session iterates over
recipients(m, session_id, exclude) ==
    IF session_id \in DOMAIN m.ac THEN m.ac[session_id] \ {exclude} ELSE {}

\* ConnectionManager.broadcast_to_session: send_json to every socket of the
\* room but `exclude`; a socket whose send raises (the set `failed`) is
\* disconnected after the loop.  A room that does not exist: nothing is sent.
broadcast_to_session(m, session_id, type, exclude, failed) ==
    LET sent == recipients(m, session_id, exclude) \ failed
        m1 == [m EXCEPT
                 !.log = [m.log EXCEPT ![session_id] = Append(@, type)],
                 !.inbox = [w \in DOMAIN m.inbox |->
                              IF w \in sent THEN Append(m.inbox[w], type)
                              ELSE m.inbox[w]]]
    IN  disconnect_all(m1, failed \cap recipients(m, session_id, exclude))

\* A handler's broadcast to the whole room, with any set of failing sends
broadcast(session_id, type) ==
    \E failed \in SUBSET recipients(Manager, session_id, NoSocket) :
        SetManager(broadcast_to_session(Manager, session_id, type, NoSocket, failed))

no_broadcast == UNCHANGED <<broadcast_log, inbox, manager_vars>>

(***************************************************************************)
(* Dependencies (app/core/dependencies.py).  Each returns 0 when it lets   *)
(* the request through and the HTTP status of the HTTPException otherwise. *)
(***************************************************************************)
session_exists(session_id) == session_id \in DOMAIN lesson_sessions

\* get_current_user / get_current_active_user
get_current_user(caller) == IF caller = Anonymous THEN 401 ELSE 0

\* require_roles(*roles)
require_roles(caller, roles) ==
    IF get_current_user(caller) # 0 THEN get_current_user(caller)
    ELSE IF role(caller) \notin roles THEN 403
    ELSE 0

\* Mutant: any teacher has access to any session
require_session_access_any_teacher(caller, session_id) ==
    IF get_current_user(caller) # 0 THEN get_current_user(caller)
    ELSE IF ~session_exists(session_id) THEN 404
    ELSE IF role(caller) = "STUDENT"
            /\ lesson_sessions[session_id].class_id # user_class_id(caller) THEN 403
    ELSE 0

\* require_session_access
require_session_access(caller, session_id) ==
    IF get_current_user(caller) # 0 THEN get_current_user(caller)
    ELSE IF ~session_exists(session_id) THEN 404
    ELSE IF role(caller) = "TEACHER"
            /\ lesson_sessions[session_id].teacher_id # caller THEN 403
    ELSE IF role(caller) = "STUDENT"
            /\ lesson_sessions[session_id].class_id # user_class_id(caller) THEN 403
    ELSE 0

\* Result.scalar_one_or_none() on a set of rows: 0 rows, 1 row, or
\* MultipleResultsFound (an unhandled exception: HTTP 500)
scalar_one_or_none(rows) ==
    IF rows = {} THEN "none" ELSE IF Cardinality(rows) = 1 THEN "one" ELSE "raise"

Waiting(op) == {r \in DOMAIN inflight : inflight[r].op = op}

\* A handler suspends at its await / resumes from it
suspend(op, caller, target) ==
    /\ Len(inflight) < MaxInflight
    /\ inflight' = Append(inflight, Suspended(op, caller, target))
resume(r) ==
    inflight' = SubSeq(inflight, 1, r - 1) \o SubSeq(inflight, r + 1, Len(inflight))

(***************************************************************************)
(* start_session (app/api/v1/lesson_sessions.py)                           *)
(***************************************************************************)
\* Mutant: the check looks for a PENDING session instead of an ACTIVE one
existing_session_pending(schedule_id) ==
    {i \in DOMAIN lesson_sessions :
        /\ lesson_sessions[i].schedule_id = schedule_id
        /\ lesson_sessions[i].status = "PENDING"}

\* select(LessonSession).where(schedule_id == ..., status == ACTIVE)
existing_session(schedule_id) ==
    {i \in DOMAIN lesson_sessions :
        /\ lesson_sessions[i].schedule_id = schedule_id
        /\ lesson_sessions[i].status = "ACTIVE"}

\* Lines 37-74: the checks before the row is built; 0 = go on to create it
start_session_checks(caller, schedule_id) ==
    IF require_roles(caller, {"TEACHER"}) # 0 THEN require_roles(caller, {"TEACHER"})
    ELSE IF schedule_id \notin Schedules THEN 404
    ELSE IF schedule_teacher_id(schedule_id) # caller THEN 403
    ELSE IF scalar_one_or_none(existing_session(schedule_id)) = "raise" THEN 500
    ELSE IF scalar_one_or_none(existing_session(schedule_id)) = "one" THEN 400
    ELSE 0

start_session_check(caller, schedule_id) ==
    /\ IF start_session_checks(caller, schedule_id) # 0
       THEN /\ out' = Response("start_session", start_session_checks(caller, schedule_id))
            /\ UNCHANGED inflight
       ELSE /\ Len(lesson_sessions) + Cardinality(Waiting("start_session")) < MaxSessions
            /\ suspend("start_session", caller, schedule_id)
            /\ UNCHANGED out
    /\ UNCHANGED <<db_vars, now, next_socket, sending>>
    /\ no_broadcast

\* Lines 76-108: db.add, commit, refresh, the SESSION_STARTED broadcast
start_session_commit(r) ==
    /\ r \in Waiting("start_session")
    /\ now < MaxClock
    /\ LET schedule_id == inflight[r].target
           new_session == [schedule_id |-> schedule_id,
                           teacher_id |-> inflight[r].caller,
                           class_id |-> schedule_class_id(schedule_id),
                           status |-> "ACTIVE",
                           started_at |-> now,
                           ended_at |-> NULL]
       IN  /\ lesson_sessions' = Append(lesson_sessions, new_session)
           /\ broadcast(Len(lesson_sessions) + 1, "SESSION_STARTED")
    /\ now' = now + 1
    /\ resume(r)
    /\ out' = Response("start_session", 200)
    /\ UNCHANGED <<session_attendance, whiteboard_events, next_socket, sending>>

(***************************************************************************)
(* join_session                                                            *)
(***************************************************************************)
\* select(SessionAttendance).where(session_id == ..., student_id == ...)
existing_attendance(session_id, student_id) ==
    {i \in DOMAIN session_attendance :
        /\ session_attendance[i].session_id = session_id
        /\ session_attendance[i].student_id = student_id}

\* Lines 114-144; 0 = go on to create the record, 200 = already joined
join_session_checks(caller, session_id) ==
    IF require_roles(caller, {"STUDENT"}) # 0 THEN require_roles(caller, {"STUDENT"})
    ELSE IF ~session_exists(session_id) THEN 404
    ELSE IF lesson_sessions[session_id].status # "ACTIVE" THEN 400
    ELSE IF user_class_id(caller) # lesson_sessions[session_id].class_id THEN 403
    ELSE IF scalar_one_or_none(existing_attendance(session_id, caller)) = "raise" THEN 500
    ELSE IF scalar_one_or_none(existing_attendance(session_id, caller)) = "one" THEN 200
    ELSE 0

join_session_check(caller, session_id) ==
    /\ IF join_session_checks(caller, session_id) # 0
       THEN /\ out' = Response("join_session", join_session_checks(caller, session_id))
            /\ UNCHANGED inflight
       ELSE /\ Len(session_attendance) + Cardinality(Waiting("join_session"))
                  < MaxAttendance
            /\ suspend("join_session", caller, session_id)
            /\ UNCHANGED out
    /\ UNCHANGED <<db_vars, now, next_socket, sending>>
    /\ no_broadcast

\* Lines 145-166: db.add(attendance), commit, the response
join_session_commit(r) ==
    /\ r \in Waiting("join_session")
    /\ now < MaxClock
    /\ session_attendance' = Append(session_attendance,
            [session_id |-> inflight[r].target,
             student_id |-> inflight[r].caller,
             joined_at |-> now,
             left_at |-> NULL])
    /\ now' = now + 1
    /\ resume(r)
    /\ out' = Response("join_session", 200)
    /\ UNCHANGED <<lesson_sessions, whiteboard_events, next_socket, sending>>
    /\ no_broadcast

(***************************************************************************)
(* end_session and cancel_session.  Neither branches on anything it read   *)
(* before its commit except as written below, and rows are never deleted,  *)
(* so each is one action taken at its commit.                              *)
(***************************************************************************)
\* The dependencies of both handlers, in parameter order
owner_checks(caller, session_id) ==
    IF require_session_access(caller, session_id) # 0
    THEN require_session_access(caller, session_id)
    ELSE require_roles(caller, {"TEACHER"})

end_session(caller, session_id) ==
    /\ IF owner_checks(caller, session_id) # 0
       THEN /\ out' = Response("end_session", owner_checks(caller, session_id))
            /\ UNCHANGED <<lesson_sessions, now>>
            /\ no_broadcast
       ELSE /\ now < MaxClock
            /\ lesson_sessions' = [lesson_sessions EXCEPT
                   ![session_id].status = "ENDED",
                   ![session_id].ended_at = now]
            /\ now' = now + 1
            /\ broadcast(session_id, "SESSION_ENDED")
            /\ out' = Response("end_session", 200)
    /\ UNCHANGED <<session_attendance, whiteboard_events, inflight, next_socket, sending>>

\* Line 210: the only status the handler refuses
cancel_refused(status) == status = "ENDED"

cancel_session(caller, session_id) ==
    /\ IF owner_checks(caller, session_id) # 0
       THEN /\ out' = Response("cancel_session", owner_checks(caller, session_id))
            /\ UNCHANGED <<lesson_sessions, now>>
            /\ no_broadcast
       ELSE IF cancel_refused(lesson_sessions[session_id].status)
       THEN /\ out' = Response("cancel_session", 400)
            /\ UNCHANGED <<lesson_sessions, now>>
            /\ no_broadcast
       ELSE IF ~HasMember("CANCELLED")
       THEN \* line 213: AttributeError before anything is assigned
            /\ out' = Response("cancel_session", 500)
            /\ UNCHANGED <<lesson_sessions, now>>
            /\ no_broadcast
       ELSE /\ now < MaxClock
            /\ lesson_sessions' = [lesson_sessions EXCEPT
                   ![session_id].status = "CANCELLED",
                   ![session_id].ended_at = now]
            /\ now' = now + 1
            /\ broadcast(session_id, "SESSION_CANCELLED")
            /\ out' = Response("cancel_session", 200)
    /\ UNCHANGED <<session_attendance, whiteboard_events, inflight, next_socket, sending>>

(***************************************************************************)
(* Whiteboard endpoints (app/api/v1/whiteboard.py)                         *)
(***************************************************************************)
\* clear_whiteboard, lines 62-73
clear_whiteboard_checks(caller, session_id) ==
    IF owner_checks(caller, session_id) # 0 THEN owner_checks(caller, session_id)
    ELSE IF lesson_sessions[session_id].status # "ACTIVE" THEN 400
    ELSE 0

clear_whiteboard_check(caller, session_id) ==
    /\ IF clear_whiteboard_checks(caller, session_id) # 0
       THEN /\ out' = Response("clear_whiteboard",
                               clear_whiteboard_checks(caller, session_id))
            /\ UNCHANGED inflight
       ELSE /\ Len(whiteboard_events) + Cardinality(Waiting("clear_whiteboard"))
                  < MaxEvents
            /\ suspend("clear_whiteboard", caller, session_id)
            /\ UNCHANGED out
    /\ UNCHANGED <<db_vars, now, next_socket, sending>>
    /\ no_broadcast

\* clear_whiteboard, lines 75-85: the CLEAR row is committed; nothing is
\* handed to the connection manager
clear_whiteboard_commit(r) ==
    /\ r \in Waiting("clear_whiteboard")
    /\ now < MaxClock
    /\ whiteboard_events' = Append(whiteboard_events,
            [session_id |-> inflight[r].target,
             created_by_id |-> inflight[r].caller,
             event_type |-> "CLEAR",
             created_at |-> now])
    /\ now' = now + 1
    /\ resume(r)
    /\ out' = Response("clear_whiteboard", 200)
    /\ UNCHANGED <<lesson_sessions, session_attendance, next_socket, sending>>
    /\ no_broadcast

\* ORDER BY created_at: insertion of each row before the first later one
RECURSIVE order_by_created_at(_)
order_by_created_at(rows) ==
    IF rows = <<>> THEN <<>>
    ELSE LET rest == order_by_created_at(Tail(rows))
             x == Head(rows)
             before == SelectSeq(rest, LAMBDA e : e.created_at <= x.created_at)
             after == SelectSeq(rest, LAMBDA e : e.created_at > x.created_at)
         IN  before \o <<x>> \o after

\* Mutant: CLEAR as a truncation marker, the state begins at the last CLEAR
whiteboard_state_from_last_clear(session_id) ==
    LET all == order_by_created_at(
                   SelectSeq(whiteboard_events, LAMBDA e : e.session_id = session_id))
        clears == {i \in DOMAIN all : all[i].event_type = "CLEAR"}
    IN  IF clears = {} THEN all
        ELSE SubSeq(all, CHOOSE i \in clears : \A j \in clears : j <= i, Len(all))

\* The events get_whiteboard_state returns for a session
whiteboard_state(session_id) ==
    order_by_created_at(
        SelectSeq(whiteboard_events, LAMBDA e : e.session_id = session_id))

event_types(events) == [i \in DOMAIN events |-> events[i].event_type]

get_whiteboard_state(caller, session_id) ==
    /\ IF require_session_access(caller, session_id) # 0
       THEN out' = Response("get_whiteboard_state",
                            require_session_access(caller, session_id))
       ELSE out' = [op |-> "get_whiteboard_state", code |-> 200,
                    body |-> event_types(whiteboard_state(session_id))]
    /\ UNCHANGED <<db_vars, now, inflight, next_socket, sending>>
    /\ no_broadcast

(***************************************************************************)
(* websocket_session_endpoint (app/api/v1/ws_sessions.py): one connection  *)
(* attempt, from the handshake to the end of its finally block.  `daily`   *)
(* is what the query for today's Attendance row of the user returns.       *)
(***************************************************************************)
DailyAttendance == AttendanceStatus \cup {NoRecord}

\* Lines 103-148: the close code of the handshake, 0 when it reaches
\* manager.connect.  Line 114 builds the list [ACTIVE, PENDING] before it
\* looks at the session: with no member PENDING that raises AttributeError,
\* which line 251 answers with close code 1011.
handshake(user, session_id, daily) ==
    IF user = Anonymous THEN 4001
    ELSE IF ~session_exists(session_id) THEN 4004
    ELSE IF ~HasMember("PENDING") THEN 1011
    ELSE IF lesson_sessions[session_id].status \notin {"ACTIVE", "PENDING"} THEN 4003
    ELSE IF role(user) = "STUDENT"
            /\ user_class_id(user) # lesson_sessions[session_id].class_id THEN 4003
    ELSE IF role(user) = "STUDENT" /\ daily = NoRecord THEN 4003
    ELSE IF role(user) = "STUDENT" /\ daily = "ABSENT" THEN 4003
    ELSE IF role(user) = "TEACHER"
            /\ user # lesson_sessions[session_id].teacher_id THEN 4003
    ELSE 0

\* Lines 254-269: the finally block.  After a failed authentication
\* current_user is unbound and line 259 raises before any broadcast.
finally(m, websocket, user, session_id, failed) ==
    IF user # Anonymous /\ role(user) = "STUDENT"
    THEN broadcast_to_session(disconnect(m, websocket), session_id,
                              "STUDENT_LEFT", NoSocket, failed)
    ELSE disconnect(m, websocket)

\* Lines 150-164: registration and the STUDENT_JOINED announcement
register(m, websocket, user, session_id, failed) ==
    IF role(user) = "STUDENT"
    THEN broadcast_to_session(connect(m, websocket, session_id, user), session_id,
                              "STUDENT_JOINED", websocket, failed)
    ELSE connect(m, websocket, session_id, user)

websocket_session_endpoint(user, session_id, daily) ==
    /\ next_socket <= MaxSockets
    /\ next_socket' = next_socket + 1
    /\ out' = [Response("websocket", handshake(user, session_id, daily))
                  EXCEPT !.body = <<user>>]
    /\ \E failed \in SUBSET recipients(Manager, session_id, NoSocket) :
          IF handshake(user, session_id, daily) # 0
          THEN SetManager(finally(Manager, next_socket, user, session_id, failed))
          ELSE SetManager(register(Manager, next_socket, user, session_id, failed))
    /\ UNCHANGED <<db_vars, now, inflight, sending>>

(***************************************************************************)
(* The system: any request of any caller at any time.                      *)
(***************************************************************************)
\* What a connection attempt can present: a daily Attendance row is looked
\* up for students only
Handshakes ==
    {h \in Callers \X SessionIds \X DailyAttendance :
        h[1] \notin Students => h[3] = NoRecord}

Next ==
    \/ \E caller \in Callers, schedule_id \in Schedules \cup {NoSchedule} :
          start_session_check(caller, schedule_id)
    \/ \E r \in Slots : start_session_commit(r)
    \/ \E caller \in Callers, session_id \in SessionIds :
          join_session_check(caller, session_id)
    \/ \E r \in Slots : join_session_commit(r)
    \/ \E caller \in Callers, session_id \in SessionIds :
          end_session(caller, session_id)
    \/ \E caller \in Callers, session_id \in SessionIds :
          cancel_session(caller, session_id)
    \/ \E caller \in Callers, session_id \in SessionIds :
          clear_whiteboard_check(caller, session_id)
    \/ \E r \in Slots : clear_whiteboard_commit(r)
    \/ \E caller \in Callers, session_id \in SessionIds :
          get_whiteboard_state(caller, session_id)
    \/ \E h \in Handshakes : websocket_session_endpoint(h[1], h[2], h[3])

Spec == Init /\ [][Next]_vars

(***************************************************************************)
(* ConnectionManager on its own, called by concurrent tasks the way the    *)
(* real-time endpoint calls it: connect at the end of a handshake,         *)
(* disconnect when a connection task ends, broadcast_to_session from any   *)
(* task.  connect's registration and disconnect have no await; a broadcast *)
(* awaits send_json inside its loop over the room, so other tasks run      *)
(* between two iterations of that loop.                                    *)
(***************************************************************************)
RoomUsers == {"s1"}
Rooms == {1, 2}               \* the session ids the callers pass
Sockets == 1..MaxConnections

\* Mutant: one room for all sessions
room_of_anyone(session_id) ==
    IF DOMAIN connection_sessions # {} /\ session_id \in Rooms
    THEN DOMAIN connection_sessions ELSE {}

room(session_id) ==
    IF session_id \in DOMAIN active_connections
    THEN active_connections[session_id] ELSE {}

\* What a change of the registry to m does to the iterator of the call under
\* way: the room it iterates was changed, or emptied and deleted (line 75)
touched(m) ==
    IF sending.state # "sending" THEN sending
    ELSE LET s == sending.session_id
         IN  [sending EXCEPT
                !.changed = @ \/ (s \in DOMAIN m.ac /\ m.ac[s] # room(s)),
                !.dropped = @ \/ s \notin DOMAIN m.ac]

\* ConnectionManager.connect with a WebSocket it has not seen
accept(session_id, user_id) ==
    /\ next_socket <= MaxConnections
    /\ next_socket' = next_socket + 1
    /\ LET m == connect(Manager, next_socket, session_id, user_id)
       IN  SetManager(m) /\ sending' = touched(m)
    /\ UNCHANGED <<db_vars, now, inflight, out>>

\* ConnectionManager.disconnect when the task of a registered socket ends
close(websocket) ==
    /\ websocket \in DOMAIN connection_sessions
    /\ LET m == disconnect(Manager, websocket)
       IN  SetManager(m) /\ sending' = touched(m)
    /\ UNCHANGED <<db_vars, now, inflight, out, next_socket>>

handed == {c \in SessionIds \X (1..MaxBroadcasts) : c[2] <= Len(broadcast_log[c[1]])}

\* broadcast_to_session, lines 112-123, up to its first await: no room,
\* return; else the loop starts and, the excluded socket skipped, the first
\* send_json is awaited (a room with nobody to send to: the loop ends and the
\* call returns at once)
broadcast_begin(session_id, exclude, websocket) ==
    /\ sending.state # "sending"
    /\ exclude \in room(session_id) \cup {NoSocket}
    /\ Cardinality(handed) < MaxBroadcasts
    /\ broadcast_log' = [broadcast_log EXCEPT ![session_id] = Append(@, "DRAW")]
    /\ LET call == [NoCall EXCEPT !.session_id = session_id, !.exclude = exclude,
                                  !.members = room(session_id),
                                  !.size = Cardinality(room(session_id))]
       IN  IF room(session_id) \ {exclude} = {}
           THEN /\ websocket = NoSocket
                /\ sending' = [call EXCEPT !.state = "returned"]
           ELSE /\ websocket \in room(session_id) \ {exclude}
                /\ sending' = [call EXCEPT !.visited = {websocket},
                                           !.current = websocket,
                                           !.state = "sending"]
    /\ UNCHANGED <<db_vars, now, inflight, out, next_socket, inbox, manager_vars>>

\* Lines 122-126 after the await: the send to the current socket went
\* through (ok) or raised, which puts the socket on the list `disconnected`
completed(ok) ==
    IF ok THEN [sending EXCEPT !.sent = @ \cup {sending.current}]
    ELSE [sending EXCEPT !.disconnected = @ \cup {sending.current}]

delivered(ok) ==
    IF ok THEN inbox' = [inbox EXCEPT ![sending.current] = Append(@, "DRAW")]
    ELSE UNCHANGED inbox

\* The set iterator of line 118 raises RuntimeError ("Set changed size
\* during iteration") when the size of the set is not what it was when the
\* loop began; a room deleted at line 75 was emptied first
iterator_raises ==
    sending.dropped \/ Cardinality(room(sending.session_id)) # sending.size

\* What the iterator can still yield that is sent to
unvisited == (room(sending.session_id) \ sending.visited) \ {sending.exclude}

\* The awaited send ends and line 118 raises: nothing in the function
\* catches it, lines 129-130 are skipped and the caller gets the exception
broadcast_raise(ok) ==
    /\ sending.state = "sending"
    /\ iterator_raises
    /\ sending' = [completed(ok) EXCEPT !.state = "raised"]
    /\ delivered(ok)
    /\ UNCHANGED <<db_vars, now, inflight, out, next_socket, manager_vars,
                   broadcast_log>>

\* The awaited send ends, the iterator yields the next socket and its
\* send_json is awaited
broadcast_send(ok, websocket) ==
    /\ sending.state = "sending"
    /\ ~iterator_raises
    /\ websocket \in unvisited
    /\ sending' = [completed(ok) EXCEPT !.visited = @ \cup {websocket},
                                        !.current = websocket]
    /\ delivered(ok)
    /\ UNCHANGED <<db_vars, now, inflight, out, next_socket, manager_vars,
                   broadcast_log>>

\* The awaited send ends and the iterator is exhausted (after a change that
\* kept the size it may skip what is left): lines 129-130 disconnect the
\* failed sockets and the call returns
broadcast_return(ok) ==
    /\ sending.state = "sending"
    /\ ~iterator_raises
    /\ unvisited = {} \/ sending.changed
    /\ LET m == disconnect_all(Manager, completed(ok).disconnected)
       IN  /\ active_connections' = m.ac
           /\ connection_users' = m.cu
           /\ connection_sessions' = m.cs
    /\ sending' = [completed(ok) EXCEPT !.state = "returned"]
    /\ delivered(ok)
    /\ UNCHANGED <<db_vars, now, inflight, out, next_socket, broadcast_log>>

\* ConnectionManager.get_session_connection_count: the size of the room, 0
\* for a session with no entry; the answer is left in `out`
get_session_connection_count(session_id) ==
    /\ out' = Response("get_session_connection_count",
                       Cardinality(room(session_id)))
    /\ UNCHANGED <<db_vars, now, inflight, next_socket, manager_vars, inbox,
                   broadcast_log, sending>>

\* ConnectionManager.is_user_connected: some socket of the room is mapped to
\* the user by connection_users (1) or none is (0)
is_user_connected(session_id, user_id) ==
    /\ out' = Response("is_user_connected",
                       IF \E websocket \in room(session_id) :
                             /\ websocket \in DOMAIN connection_users
                             /\ connection_users[websocket] = user_id
                       THEN 1 ELSE 0)
    /\ UNCHANGED <<db_vars, now, inflight, next_socket, manager_vars, inbox,
                   broadcast_log, sending>>

ManagerNext ==
    \/ \E session_id \in Rooms, user_id \in RoomUsers :
          accept(session_id, user_id)
    \/ \E websocket \in Sockets : close(websocket)
    \/ \E session_id \in Rooms, exclude, websocket \in Sockets \cup {NoSocket} :
          broadcast_begin(session_id, exclude, websocket)
    \/ \E ok \in BOOLEAN : broadcast_raise(ok)
    \/ \E ok \in BOOLEAN, websocket \in Sockets : broadcast_send(ok, websocket)
    \/ \E ok \in BOOLEAN : broadcast_return(ok)
    \/ \E session_id \in Rooms : get_session_connection_count(session_id)
    \/ \E session_id \in Rooms, user_id \in Students :
          is_user_connected(session_id, user_id)

ManagerSpec == Init /\ [][ManagerNext]_vars

(***************************************************************************)
(* Claims                                                                  *)
(***************************************************************************)
OpenStatuses == {"PENDING", "ACTIVE"}

open_sessions(schedule_id) ==
    {i \in DOMAIN lesson_sessions :
        /\ lesson_sessions[i].schedule_id = schedule_id
        /\ lesson_sessions[i].status \in OpenStatuses}

\* C1: in every reachable state each schedule has at most one session whose
\* status is PENDING or ACTIVE, whatever the interleaving of the requests.
C1_AtMostOneOpenSessionPerSchedule ==
    \A schedule_id \in Schedules : Cardinality(open_sessions(schedule_id)) <= 1

active_sessions(schedule_id) ==
    {i \in DOMAIN lesson_sessions :
        /\ lesson_sessions[i].schedule_id = schedule_id
        /\ lesson_sessions[i].status = "ACTIVE"}

\* C2: a start request whose check for an existing session is made while the
\* schedule has an ACTIVE session is answered with an error, suspends
\* nothing that could insert later, and leaves every session row as it was.
C2_StartWhileActiveFails ==
    [][\A schedule_id \in Schedules, caller \in Callers :
          (active_sessions(schedule_id) # {}
             /\ start_session_check(caller, schedule_id))
          => /\ lesson_sessions' = lesson_sessions
             /\ inflight' = inflight
             /\ out'.op = "start_session"
             /\ out'.code >= 400]_vars

\* C2 witness: the owning teacher's second start was refused with 400 while
\* the schedule's ACTIVE session stands.
C2_Witness ==
    /\ out = Response("start_session", 400)
    /\ \E schedule_id \in Schedules : Cardinality(active_sessions(schedule_id)) = 1
    /\ Len(lesson_sessions) = 1

\* The whiteboard rows of a session, in insertion order
events_of(session_id) ==
    SelectSeq(whiteboard_events, LAMBDA e : e.session_id = session_id)

TerminalStatuses == {"ENDED", "CANCELLED"}

\* C3: once a session is ENDED or CANCELLED no step appends a whiteboard row
\* for it: every later DRAW, ERASE or CLEAR is rejected.
C3_NoAppendAfterEnd ==
    [][\A session_id \in DOMAIN lesson_sessions :
          lesson_sessions[session_id].status \in TerminalStatuses
          => events_of(session_id)' = events_of(session_id)]_vars

\* The whiteboard messages handed to the room of a session, in order
broadcast_events(session_id) ==
    SelectSeq(broadcast_log[session_id], LAMBDA t : t \in WhiteboardEventType)

\* C5: for every session the events get_whiteboard_state returns, in the
\* order of created_at, are exactly the whiteboard events that were broadcast
\* to the room of the session, in the order of the broadcasts.
C5_StateIsWhatWasBroadcast ==
    \A session_id \in SessionIds :
        event_types(whiteboard_state(session_id)) = broadcast_events(session_id)

Admitted == {"PRESENT", "LATE", "EXCUSED"}

\* C7: a student of the class of an ACTIVE session who connects is registered
\* in the room if and only if today's Attendance row exists and is not ABSENT;
\* with no row or with ABSENT the socket is closed with 4003, unregistered.
C7_StudentAdmittedIffAttended ==
    [][\A user \in Students, session_id \in SessionIds, daily \in DailyAttendance :
          (/\ session_exists(session_id)
           /\ lesson_sessions[session_id].status = "ACTIVE"
           /\ lesson_sessions[session_id].class_id = user_class_id(user)
           /\ websocket_session_endpoint(user, session_id, daily))
          => IF daily \in Admitted
             THEN /\ next_socket \in DOMAIN connection_sessions'
                  /\ connection_sessions'[next_socket] = session_id
             ELSE /\ next_socket \notin DOMAIN connection_sessions'
                  /\ out'.code = 4003]_vars

\* C8: in every reachable state a (session, student) pair has at most one
\* row of session_attendance, overlapping join requests included.
C8_AtMostOneRecordPerStudent ==
    \A session_id \in SessionIds, student_id \in Students :
        Cardinality(existing_attendance(session_id, student_id)) <= 1

\* C9: ENDED and CANCELLED are terminal: no step changes the status of a
\* session whose status is ENDED or CANCELLED.
C9_TerminalStatusNeverChanges ==
    [][\A session_id \in DOMAIN lesson_sessions :
          lesson_sessions[session_id].status \in TerminalStatuses
          => lesson_sessions'[session_id].status
                = lesson_sessions[session_id].status]_vars

\* C9 witness: an ENDED session was the target of a cancel request (refused,
\* line 210) and is still ENDED.
C9_Witness ==
    /\ out = Response("cancel_session", 400)
    /\ \E session_id \in DOMAIN lesson_sessions :
          /\ lesson_sessions[session_id].status = "ENDED"
          /\ lesson_sessions[session_id].ended_at # NULL

\* C10: an end request by the owning teacher on a session that is not ACTIVE
\* is answered with an error, leaves the row as it was (status and ended_at)
\* and hands no lifecycle event to the room.
C10_EndOfTerminalSessionRejected ==
    [][\A caller \in Teachers, session_id \in SessionIds :
          (/\ session_exists(session_id)
           /\ lesson_sessions[session_id].teacher_id = caller
           /\ lesson_sessions[session_id].status # "ACTIVE"
           /\ end_session(caller, session_id))
          => /\ out'.code >= 400
             /\ lesson_sessions' = lesson_sessions
             /\ broadcast_log' = broadcast_log]_vars

\* The caller is the teacher of an existing session
owns(caller, session_id) ==
    /\ session_exists(session_id)
    /\ lesson_sessions[session_id].teacher_id = caller

\* C11: a cancel request succeeds only on a PENDING or ACTIVE session: on a
\* session that is ENDED or CANCELLED a cancel by its teacher is answered
\* with an error and leaves every session row (status, ended_at) as it was.
C11_CancelOfTerminalSessionRejected ==
    [][\A caller \in Teachers, session_id \in SessionIds :
          (/\ owns(caller, session_id)
           /\ lesson_sessions[session_id].status \in TerminalStatuses
           /\ cancel_session(caller, session_id))
          => /\ out'.code >= 400
             /\ lesson_sessions' = lesson_sessions]_vars

\* C11 witness: the teacher's cancel of the session they ended was refused
\* and the row still carries the time of the end.
C11_Witness ==
    /\ out = Response("cancel_session", 400)
    /\ \E session_id \in DOMAIN lesson_sessions :
          /\ lesson_sessions[session_id].status = "ENDED"
          /\ lesson_sessions[session_id].ended_at = now - 1

\* C12: an end (a cancel) of an ACTIVE session by its teacher sets the status
\* to ENDED (CANCELLED) with ended_at set, and SESSION_ENDED
\* (SESSION_CANCELLED) is handed to the room of the session.
C12_EndAndCancelTakeEffect ==
    [][\A caller \in Teachers, session_id \in SessionIds :
          (owns(caller, session_id) /\ lesson_sessions[session_id].status = "ACTIVE")
          => /\ end_session(caller, session_id)
                => /\ lesson_sessions'[session_id].status = "ENDED"
                   /\ lesson_sessions'[session_id].ended_at # NULL
                   /\ broadcast_log'[session_id]
                         = Append(broadcast_log[session_id], "SESSION_ENDED")
             /\ cancel_session(caller, session_id)
                => /\ lesson_sessions'[session_id].status = "CANCELLED"
                   /\ lesson_sessions'[session_id].ended_at # NULL
                   /\ broadcast_log'[session_id]
                         = Append(broadcast_log[session_id], "SESSION_CANCELLED")]_vars

registered(websocket) ==
    \/ websocket \in DOMAIN connection_sessions
    \/ websocket \in DOMAIN connection_users
    \/ \E session_id \in DOMAIN active_connections :
          websocket \in active_connections[session_id]

RoomRoles == {"TEACHER", "STUDENT"}

outsider(user, session_id) ==
    \/ role(user) = "TEACHER" /\ lesson_sessions[session_id].teacher_id # user
    \/ role(user) = "STUDENT"
         /\ lesson_sessions[session_id].class_id # user_class_id(user)

\* C14: every registered socket is the session's teacher's or a student's of
\* the session's class: a teacher who is not the session's teacher and a
\* student of another class are closed with 4003 and never registered.
C14_OutsidersClosedWith4003 ==
    [][\A h \in Handshakes :
          (/\ h[1] \in Teachers \cup Students
           /\ session_exists(h[2])
           /\ lesson_sessions[h[2]].status = "ACTIVE"
           /\ outsider(h[1], h[2])
           /\ websocket_session_endpoint(h[1], h[2], h[3]))
          => /\ out'.code = 4003
             /\ ~registered(next_socket)']_vars

\* The close code the connect-time checks call for, 0 when none fails
close_code_of_failed_check(user, session_id, daily) ==
    IF user = Anonymous THEN 4001
    ELSE IF ~session_exists(session_id) THEN 4004
    ELSE IF \/ lesson_sessions[session_id].status \notin OpenStatuses
            \/ outsider(user, session_id)
            \/ role(user) = "STUDENT" /\ daily \notin Admitted
         THEN 4003
    ELSE 0

\* C15: a handshake that fails a connect-time check ends with the close code
\* of that check (4001 unauthenticated, 4004 no such session, 4003 session
\* not open / ownership / class / attendance) and its socket is not in the
\* registry afterwards.
C15_FailedHandshakeCloseCode ==
    [][\A h \in Handshakes :
          (/\ close_code_of_failed_check(h[1], h[2], h[3]) # 0
           /\ websocket_session_endpoint(h[1], h[2], h[3]))
          => /\ out'.code = close_code_of_failed_check(h[1], h[2], h[3])
             /\ ~registered(next_socket)']_vars

C17_SendFailureIsContained ==
    sending.disconnected # {}
    => /\ sending.state # "raised"
       /\ sending.state = "returned"
          => /\ \A w \in sending.disconnected : ~registered(w)
             /\ sending.sent \cup sending.disconnected
                   = sending.members \ {sending.exclude}

\* C18: a broadcast to a session with an excluded socket reaches exactly the
\* sockets that were in the room of the session when it was called, other
\* than the excluded one: every one of them and no other.
C18_BroadcastReachesTheRoom ==
    sending.state \in {"returned", "raised"}
    => sending.sent \cup sending.disconnected
          = sending.members \ {sending.exclude}

\* C19: once the task of a connection has ended (its finally block has
\* called disconnect) the socket is in no room and in neither socket-keyed
\* map, and it never comes back.
C19_EndedConnectionIsGone ==
    [][\A websocket \in Sockets :
          (close(websocket) \/ (websocket < next_socket /\ ~registered(websocket)))
          => ~registered(websocket)']_vars

\* C19 witness: a socket that was connected has been disconnected by its
\* task (no broadcast has run) while another socket is still in a room.
C19_Witness ==
    /\ sending.state = "idle"
    /\ \E websocket \in Sockets :
          websocket < next_socket /\ ~registered(websocket)
    /\ DOMAIN active_connections # {}

\* C21: session rows are created and changed only by the owning teacher: a
\* start by anyone but the schedule's teacher and an end or cancel by anyone
\* but the session's teacher is answered with an error and leaves every row
\* as it was; a new row carries its schedule's teacher; no row is deleted.
C21_OnlyTheOwnerWritesSessions ==
    [][/\ \A caller \in Callers, schedule_id \in Schedules :
             caller # schedule_teacher_id(schedule_id)
             => \/ /\ out'.code >= 400
                   /\ inflight' = inflight
                   /\ lesson_sessions' = lesson_sessions
                \/ ~start_session_check(caller, schedule_id)
       /\ \A caller \in Callers, session_id \in DOMAIN lesson_sessions :
             caller # lesson_sessions[session_id].teacher_id
             => \/ /\ out'.code >= 400
                   /\ lesson_sessions' = lesson_sessions
                \/ /\ ~end_session(caller, session_id)
                   /\ ~cancel_session(caller, session_id)
       /\ DOMAIN lesson_sessions \subseteq DOMAIN lesson_sessions'
       /\ \A i \in DOMAIN lesson_sessions' \ DOMAIN lesson_sessions :
             lesson_sessions'[i].teacher_id
                = schedule_teacher_id(lesson_sessions'[i].schedule_id)]_vars

\* C21 witness: an end request on the ACTIVE session of another teacher was
\* refused with 403 and the session is still ACTIVE with no end time.
C21_Witness ==
    /\ out = Response("end_session", 403)
    /\ lesson_sessions # <<>>
    /\ \A i \in DOMAIN lesson_sessions :
          lesson_sessions[i].status = "ACTIVE" /\ lesson_sessions[i].ended_at = NULL

\* C22: a broadcast during whose awaited send another task connected a
\* socket to the same room or disconnected one from it still completes
\* without raising, and has sent the message to every socket that was in the
\* room from the call to the return (the excluded one apart).
C22_BroadcastSurvivesInterleaving ==
    (sending.changed \/ sending.dropped)
    => /\ sending.state # "raised"
       /\ sending.state = "returned"
          => (sending.members \cap room(sending.session_id)) \ {sending.exclude}
                \subseteq sending.sent

\* C23: the whiteboard log is append-only: no step changes or removes a
\* persisted row, every event get_whiteboard_state returns for a session it
\* returns ever after, and a new row, a CLEAR included, goes to the end of
\* the state of its session with everything before it still there.
C23_WhiteboardLogIsAppendOnly ==
    [][/\ Len(whiteboard_events) <= Len(whiteboard_events')
       /\ SubSeq(whiteboard_events', 1, Len(whiteboard_events)) = whiteboard_events
       /\ \A session_id \in SessionIds :
             /\ \A i \in DOMAIN whiteboard_state(session_id) :
                   \E j \in DOMAIN whiteboard_state(session_id)' :
                      whiteboard_state(session_id)'[j]
                         = whiteboard_state(session_id)[i]
             /\ events_of(session_id)' # events_of(session_id)
                => whiteboard_state(session_id)'
                      = Append(whiteboard_state(session_id),
                               whiteboard_events'[Len(whiteboard_events')])]_vars

\* C23 witness: a session was cleared twice and get_whiteboard_state has
\* returned both CLEAR events.
C23_Witness ==
    /\ out = [op |-> "get_whiteboard_state", code |-> 200,
              body |-> <<"CLEAR", "CLEAR">>]
    /\ \E session_id \in DOMAIN lesson_sessions :
          Len(whiteboard_state(session_id)) = 2

\* The three maps of the registry agree: no room is empty, and a socket is
\* in the room of a session exactly when connection_sessions sends it to
\* that session and connection_users has an entry for it.
registry_consistent ==
    /\ \A session_id \in DOMAIN active_connections :
          active_connections[session_id] # {}
    /\ \A websocket \in Sockets, session_id \in Rooms :
          websocket \in room(session_id)
          <=> /\ websocket \in DOMAIN connection_sessions
              /\ connection_sessions[websocket] = session_id
              /\ websocket \in DOMAIN connection_users

\* C24: after any sequence of connect, disconnect and broadcast calls the
\* registry is consistent (no empty room; room membership agrees with the two
\* socket-keyed maps), and get_session_connection_count and is_user_connected
\* leave the registry as it was.
C24_RegistryIsConsistent ==
    [][/\ registry_consistent
       /\ registry_consistent'
       /\ \/ UNCHANGED manager_vars
          \/ /\ \A session_id \in Rooms :
                   ~get_session_connection_count(session_id)
             /\ \A session_id \in Rooms, user_id \in Students :
                   ~is_user_connected(session_id, user_id)]_vars

\* C24 witness: after a broadcast that returned and a disconnect, with a
\* socket still registered, is_user_connected has answered yes.
C24_Witness ==
    /\ sending.state = "returned"
    /\ \E websocket \in Sockets :
          websocket < next_socket /\ ~registered(websocket)
    /\ DOMAIN active_connections # {}
    /\ out = Response("is_user_connected", 1)

\* What belongs to one session: its row, its attendance records, its
\* whiteboard log, the sockets registered for it with what each has received,
\* and the messages handed to its room
attendance_of(session_id) ==
    SelectSeq(session_attendance, LAMBDA a : a.session_id = session_id)

sockets_of(session_id) ==
    {websocket \in DOMAIN connection_sessions :
        connection_sessions[websocket] = session_id}

members_of(session_id) ==
    IF session_id \in DOMAIN active_connections
    THEN active_connections[session_id] ELSE {}

untouched(session_id) ==
    /\ session_id \in DOMAIN lesson_sessions
       => lesson_sessions'[session_id] = lesson_sessions[session_id]
    /\ attendance_of(session_id)' = attendance_of(session_id)
    /\ events_of(session_id)' = events_of(session_id)
    /\ members_of(session_id)' = members_of(session_id)
    /\ sockets_of(session_id)' = sockets_of(session_id)
    /\ \A websocket \in sockets_of(session_id) :
          inbox'[websocket] = inbox[websocket]
    /\ broadcast_log'[session_id] = broadcast_log[session_id]

\* The step is an operation addressed to the session: a request that names
\* it, the commit of one, a connection attempt to it, a connect to its room,
\* the disconnect of one of its sockets, or a step of a broadcast to it
addressed_to(session_id) ==
    \/ \E caller \in Callers :
          \/ join_session_check(caller, session_id)
          \/ end_session(caller, session_id)
          \/ cancel_session(caller, session_id)
          \/ clear_whiteboard_check(caller, session_id)
          \/ get_whiteboard_state(caller, session_id)
    \/ \E r \in Slots :
          /\ r \in DOMAIN inflight
          /\ inflight[r].target = session_id
          /\ join_session_commit(r) \/ clear_whiteboard_commit(r)
    \/ \E h \in Handshakes :
          h[2] = session_id /\ websocket_session_endpoint(h[1], h[2], h[3])
    \/ \E user_id \in RoomUsers : accept(session_id, user_id)
    \/ \E websocket \in sockets_of(session_id) : close(websocket)
    \/ \E exclude, websocket \in Sockets \cup {NoSocket} :
          broadcast_begin(session_id, exclude, websocket)
    \/ /\ sending.session_id = session_id
       /\ \E ok \in BOOLEAN :
             \/ broadcast_raise(ok)
             \/ broadcast_return(ok)
             \/ \E websocket \in Sockets : broadcast_send(ok, websocket)

\* C25: sessions are isolated: a step addressed to one session leaves every
\* other session's row, attendance records, whiteboard log and room as they
\* were, hands no message to the other room and delivers none to a socket
\* registered in it.
C25_SessionsAreIsolated ==
    [][\A A, B \in SessionIds :
          A # B => (untouched(B) \/ ~addressed_to(A))]_vars

\* C25 witness: both sessions have a socket in their room, a broadcast to
\* session 1 has returned with its message delivered, and the socket of
\* session 2 has received nothing.
C25_Witness ==
    /\ members_of(1) # {} /\ members_of(2) # {}
    /\ sending.state = "returned"
    /\ sending.session_id = 1
    /\ sending.sent # {}
    /\ \A websocket \in members_of(2) : inbox[websocket] = <<>>

\* C26: when the connection of a student who has a session_attendance record
\* for the session ends and its disconnect handling (the finally block) has
\* run, the record's left_at is set.
C26_LeaveSetsLeftAt ==
    [][\A h \in Handshakes :
          (h[1] \in Students /\ existing_attendance(h[2], h[1]) # {})
          => \/ \A i \in existing_attendance(h[2], h[1]) :
                   session_attendance'[i].left_at # NULL
             \/ ~websocket_session_endpoint(h[1], h[2], h[3])]_vars

\* How many messages of one type have been handed to the room of a session
handed_of(session_id, type) ==
    Cardinality({i \in DOMAIN broadcast_log[session_id] :
                    broadcast_log[session_id][i] = type})

C29_NoEntryToClosedSession ==
    [][/\ \A h \in Handshakes :
             (/\ h[1] # Anonymous
              /\ session_exists(h[2])
              /\ lesson_sessions[h[2]].status \in TerminalStatuses)
             => \/ out'.code = 4003 /\ ~registered(next_socket)'
                \/ ~websocket_session_endpoint(h[1], h[2], h[3])
       /\ \A h \in Handshakes :
             (session_exists(h[2]) /\ registered(next_socket)')
             => \/ lesson_sessions[h[2]].status \in OpenStatuses
                \/ ~websocket_session_endpoint(h[1], h[2], h[3])
       /\ \A caller \in Students, session_id \in DOMAIN lesson_sessions :
             lesson_sessions[session_id].status # "ACTIVE"
             => \/ /\ out'.code >= 400
                   /\ inflight' = inflight
                   /\ session_attendance' = session_attendance
                \/ ~join_session_check(caller, session_id)]_vars

\* C30: at every moment a session's ended_at is null exactly when its status
\* is ACTIVE or PENDING (and set exactly when it is ENDED or CANCELLED), and
\* an ended_at that has been set is never changed by a later step.
C30_EndedAtSetOnceWithStatus ==
    [][\A session_id \in DOMAIN lesson_sessions :
          /\ lesson_sessions[session_id].ended_at = NULL
             <=> lesson_sessions[session_id].status \in OpenStatuses
          /\ lesson_sessions'[session_id].ended_at = NULL
             <=> lesson_sessions'[session_id].status \in OpenStatuses
          /\ lesson_sessions[session_id].ended_at # NULL
             => lesson_sessions'[session_id].ended_at
                   = lesson_sessions[session_id].ended_at]_vars

====
